---- MODULE Spec2Model ----
(***************************************************************************)
(* Model of piperum: sessions (Piperum.__call__), stream preparation       *)
(* (utils.prepare_std), the terminal guard (utils.wrap_tty), pipeline      *)
(* construction (utils.construct_pipeline) and the foreground / background *)
(* entry points Piperum.run, Piperum.cap and Piperum.run_bg; background    *)
(* tasks (background.Task) and their poller (background.TaskPoller).       *)
(*                                                                         *)
(* Stages are numbered 1..n here (the source numbers them 0..n-1).  The    *)
(* calling process is assumed to have a controlling terminal on stdin.     *)
(* Child processes are abstract programs: while running, a stage may read  *)
(* a byte of its stdin, write a byte to its stdout, or exit.               *)
(***************************************************************************)
EXTENDS Integers, Sequences, FiniteSets, TLC

\* ---------------------------------------------------------------- bounds
MaxStages == 2
MaxOut == 1
MaxSessions == 2
PipeCap == 1
MaxErr == 1
MaxTasks == 2
MaxCallers == 2

\* ------------------------------------------------------- values and types
\* Optional values: None is the empty tuple, Some(x) a one-element tuple.
None == <<>>
Some(x) == <<x>>

\* Strings are tuples of character codes.  Byte j written by stage k is
\* Tok(k, j), so that every byte names the stage that produced it.
Tok(k, j) == 10 * k + j
\* Byte j written by stage k to its stderr
ErrTok(k, j) == 1000 + 10 * k + j
IsErrTok(x) == x >= 1000
Texts == {<<>>, <<"t">>}
InPath == <<"in.txt">>
OutPath == <<"out.txt">>
ErrPath == <<"err.txt">>
Timeouts == {None, Some("T")}

SIGKILLED == -9
SIGPIPED == -13
ExitCodes == {0, 1}

ShellPgrp == 1
Pid(k) == 100 + k

EnvKeys == {"HOME", "X"}
\* os.environ of the calling process
os_environ == [k \in {"HOME"} |-> "inherited"]
Overlays == {[k \in {"X"} |-> "v"], [k \in {"HOME"} |-> "v"]}

VARIABLES
    envObjs,      \* heap of environment dicts: Seq of functions key -> value
    sess,         \* Piperum objects: Seq of [env: index into envObjs]
    call,         \* arguments of the entry point being executed
    pc,           \* position of the calling thread
    exc,          \* exception propagating out of the call, if any
    tty,          \* [fg, sigttou, fdOpen]: terminal state seen by the caller
    saved,        \* wrap_tty locals: [orig_tcpgrp, orig_sigttou_handler]
    std,          \* triple yielded by prepare_std
    openHandles,  \* files opened by prepare_std and not closed
    prcs,         \* list of Popen objects / child processes
    pipes,        \* pipes[k]: bytes in the pipe attached to stage k's stdout
    rdOpen,       \* stages k whose stdout pipe read end the caller holds open
    stdinPipe,    \* [buf, wrOpen, fed]: pipe to stage 1's stdin (inptxt)
    loop,         \* drain loop locals: [i, prc_inp, retcode, res_out, buf]
    killed,       \* outcome of the os.killpg call of _kill
    bgTasks,      \* Task objects created by run_bg: Seq of [prcs, pid]
    tasks,        \* TaskPoller.tasks: set of indices into bgTasks
    poll_th,      \* TaskPoller._poll_th: 0 for None, else index into threads
    threads,      \* polling threads: Seq of [pc, finished_tasks, todo, used, error]
    callers,      \* threads calling run_bg: [pc, task]
    waiter        \* a call of Task.wait: [state, task, value]

\* State of the background side (Task, TaskPoller)
bgVars == <<bgTasks, tasks, poll_th, threads, callers, waiter>>

vars == <<envObjs, sess, call, pc, exc, tty, saved, std, openHandles, prcs,
          pipes, rdOpen, stdinPipe, loop, killed, bgVars>>

NoCall == [mode |-> "none", s |-> 0, n |-> 0, inptxt |-> None, inpfl |-> None,
           outfl |-> None, errfl |-> None, err2out |-> FALSE, timeout |-> None]
NoExc == [kind |-> "none", idx |-> 0, code |-> 0]
NoLoop == [i |-> 0, prc_inp |-> None, retcode |-> 0, res_out |-> None, buf |-> <<>>]

\* State after TaskPoller() and Piperum(task_poller): runner.py:37-40
Init ==
    /\ envObjs = << [k \in {} |-> "v"] >>
    /\ sess = << [env |-> 1] >>
    /\ call = NoCall
    /\ pc = "idle"
    /\ exc = NoExc
    /\ tty = [fg |-> ShellPgrp, sigttou |-> "SIG_DFL", fdOpen |-> FALSE]
    /\ saved = [orig_tcpgrp |-> 0, orig_sigttou_handler |-> "unset"]
    /\ std = <<"None", "None", "None">>
    /\ openHandles = {}
    /\ prcs = <<>>
    /\ pipes = [k \in 1..(MaxStages + 1) |-> <<>>]
    /\ rdOpen = {}
    /\ stdinPipe = [buf |-> <<>>, wrOpen |-> FALSE, fed |-> 0]
    /\ loop = NoLoop
    /\ killed = "no"
    /\ bgTasks = <<>>
    /\ tasks = {}
    /\ poll_th = 0
    /\ threads = <<>>
    /\ callers = [c \in 1..MaxCallers |-> [pc |-> "idle", task |-> 0]]
    /\ waiter = [state |-> "none", task |-> 0, value |-> 0, timeout |-> None, i |-> 0]

\* ------------------------------------------------------------- sessions
\* dict.update(other)
DictUpdate(d, o) ==
    [k \in (DOMAIN d) \cup (DOMAIN o) |-> IF k \in DOMAIN o THEN o[k] ELSE d[k]]

\* runner.py:61: which dict object the derived session refers to.  The
\* source assigns the original's own dict (no copy is made).
DerivedEnvRef(self) == sess[self].env

\* Piperum.__call__(**env) on session self, all values being str
Derive(self, env) ==
    /\ pc = "idle"
    /\ Len(sess) < MaxSessions
    /\ LET ref == DerivedEnvRef(self)
           heap == IF ref \in DOMAIN envObjs THEN envObjs
                   ELSE Append(envObjs, envObjs[sess[self].env])
       IN /\ sess' = Append(sess, [env |-> ref])
          /\ envObjs' = [heap EXCEPT ![ref] = DictUpdate(@, env)]
    /\ UNCHANGED bgVars
    /\ UNCHANGED <<call, pc, exc, tty, saved, std, openHandles, prcs, pipes,
                   rdOpen, stdinPipe, loop, killed>>

\* The environment a session hands to construct_pipeline
SessEnv(s) == envObjs[sess[s].env]

\* ------------------------------------------------------------ entry point
\* Python's `a or b` on optional strings: a if a is truthy, else b
PyOr(a, b) == IF a # None /\ a[1] # <<>> THEN a ELSE b

IsFg == call.mode \in {"run", "cap"}

\* Entry of run / cap / run_bg up to the with statement: runner.py:108-110,
\* 158-160, 214
Call(mode, s, n, inptxt, inpfl, outfl, errfl, err2out, timeout) ==
    /\ pc = "idle"
    /\ mode = "cap" => outfl = None
    /\ mode = "run_bg" => inptxt = None /\ timeout = None
    /\ call' = [mode |-> mode, s |-> s, n |-> n, inptxt |-> inptxt,
                inpfl |-> inpfl, outfl |-> outfl, errfl |-> errfl,
                err2out |-> err2out, timeout |-> timeout]
    /\ loop' = [NoLoop EXCEPT !.prc_inp =
                    IF mode = "run_bg" THEN None ELSE PyOr(inptxt, inpfl)]
    /\ pc' = IF mode = "run_bg" THEN "prepare_std" ELSE "wrap_tty"
    /\ UNCHANGED bgVars
    /\ UNCHANGED <<envObjs, sess, exc, tty, saved, std, openHandles, prcs,
                   pipes, rdOpen, stdinPipe, killed>>

\* ------------------------------------------------------- terminal guard
\* utils.wrap_tty up to the yield: utils.py:114-121
WrapTtyEnter ==
    /\ pc = "wrap_tty"
    /\ saved' = [orig_tcpgrp |-> tty.fg, orig_sigttou_handler |-> tty.sigttou]
    /\ tty' = [tty EXCEPT !.fdOpen = TRUE, !.sigttou = "SIG_IGN"]
    /\ pc' = "prepare_std"
    /\ UNCHANGED bgVars
    /\ UNCHANGED <<envObjs, sess, call, exc, std, openHandles, prcs, pipes,
                   rdOpen, stdinPipe, loop, killed>>

\* (mutant) the foreground process group is not put back
RestoredTty_NoTcsetpgrp(t, sv) ==
    [fg |-> t.fg, sigttou |-> sv.orig_sigttou_handler, fdOpen |-> FALSE]

\* The finally clause of wrap_tty: utils.py:122-125
RestoredTty(t, sv) ==
    [fg |-> sv.orig_tcpgrp, sigttou |-> sv.orig_sigttou_handler, fdOpen |-> FALSE]

\* The entry point's frame holds the only references to the file objects of
\* `std` (runner.py:112, :160, :210).  On a normal return the frame is freed
\* and the interpreter's finalizer closes the files; a propagating exception
\* keeps the frame, through its traceback, for as long as the caller keeps
\* the exception.
FrameDropped(handles, e) == IF e.kind = "none" THEN {} ELSE handles

WrapTtyExit ==
    /\ pc = "wrap_tty_exit"
    /\ tty' = RestoredTty(tty, saved)
    /\ openHandles' = FrameDropped(openHandles, exc)
    /\ pc' = "done"
    /\ UNCHANGED bgVars
    /\ UNCHANGED <<envObjs, sess, call, exc, saved, std, prcs,
                   pipes, rdOpen, stdinPipe, loop, killed>>

\* The caller discards the exception the entry point raised: the traceback
\* and with it the frame are freed, and the finalizer closes the files
DropException ==
    /\ pc = "done"
    /\ exc.kind # "none"
    /\ openHandles # {}
    /\ openHandles' = {}
    /\ UNCHANGED bgVars
    /\ UNCHANGED <<envObjs, sess, call, pc, exc, tty, saved, std, prcs,
                   pipes, rdOpen, stdinPipe, loop, killed>>

\* ----------------------------------------------------- stream preparation
\* open_stream_w / open_stream_r: None for None, else an open file handle
open_stream(path, handle) == IF path = None THEN "None" ELSE handle
Opened(path, handle) == IF path = None THEN {} ELSE {handle}

\* (mutant) the errfl / err2out check is never taken
ErrorConflict_Unchecked(errfl, err2out) == FALSE

\* The two argument checks of prepare_std: utils.py:82 and utils.py:92
InputConflict(inptxt, inpfl) == inptxt # None /\ inpfl # None
ErrorConflict(errfl, err2out) == err2out /\ errfl # None

\* prepare_std up to the yield, in source order: utils.py:80-98.
\* raised: the generator raised before yielding; opened: files opened so far.
PrepareStd(inptxt, inpfl, outfl, errfl, err2out) ==
    LET stdout == open_stream(outfl, "f_out")
        o1 == Opened(outfl, "f_out")
        stdin == IF inptxt # None THEN "PIPE" ELSE open_stream(inpfl, "f_in")
        o2 == o1 \cup (IF inptxt # None THEN {} ELSE Opened(inpfl, "f_in"))
    IN IF InputConflict(inptxt, inpfl)
       THEN [raised |-> TRUE, opened |-> o1, std |-> <<"None", "None", "None">>]
       ELSE IF err2out
       THEN IF ErrorConflict(errfl, err2out)
            THEN [raised |-> TRUE, opened |-> o2, std |-> <<"None", "None", "None">>]
            ELSE [raised |-> FALSE, opened |-> o2, std |-> <<stdin, stdout, "STDOUT">>]
       ELSE [raised |-> FALSE, opened |-> o2 \cup Opened(errfl, "f_err"),
             std |-> <<stdin, stdout, open_stream(errfl, "f_err")>>]

\* Entering `with prepare_std(...) as std`: runner.py:113, 164, 214.
\* cap passes outfl=None; run_bg has no inptxt.
PrepareStdEnter ==
    /\ pc = "prepare_std"
    /\ LET r == PrepareStd(call.inptxt, call.inpfl, call.outfl, call.errfl, call.err2out)
       IN /\ openHandles' = r.opened
          /\ std' = r.std
          /\ IF r.raised
             THEN /\ exc' = [kind |-> "config", idx |-> 0, code |-> 0]
                  /\ pc' = IF IsFg THEN "wrap_tty_exit" ELSE "done"
             ELSE /\ exc' = exc
                  /\ pc' = "construct"
    /\ UNCHANGED bgVars
    /\ UNCHANGED <<envObjs, sess, call, tty, saved, prcs, pipes, rdOpen,
                   stdinPipe, loop, killed>>

\* map(f, xs) builds a lazy iterator; nothing consumes it, so f is applied
\* to no element: the set of elements f was applied to.
LazyMapApplied(xs) == {}

\* The finally clause of prepare_std: utils.py:99-100
PrepareStdExit ==
    /\ pc = "prepare_std_exit"
    /\ openHandles' = openHandles \ LazyMapApplied(openHandles)
    /\ pc' = IF IsFg THEN "wrap_tty_exit"
             ELSE IF exc.kind = "none" THEN "add" ELSE "done"
    /\ UNCHANGED bgVars
    /\ UNCHANGED <<envObjs, sess, call, exc, tty, saved, std, prcs, pipes,
                   rdOpen, stdinPipe, loop, killed>>

\* -------------------------------------------------- pipeline construction
\* utils.py:152-154: os.environ.copy() updated with the session's env
prcs_env(env) == DictUpdate(os_environ, env)

\* utils.py:178: the mapping given to Popen as env= is the env argument; a
\* child started with env=m has exactly the variables of m.
PopenEnv(merged, env) == env

\* utils.py:163-166 and 168-171: the handles given to stage k of n
StageStdin(k, stdin) == IF k = 1 THEN stdin ELSE "prev"
StageStdout(k, n, stdout) == IF k < n THEN "PIPE" ELSE stdout

\* utils.py:182, 185-186: Popen(process_group=pgid) with pgid 0 makes the
\* child the leader of a new group
\* (mutant) every stage leads a group of its own
ProcessGroup_Own(pgid, pid) == pid
ProcessGroup(pgid, pid) == IF pgid = 0 THEN pid ELSE pgid

\* Task.__init__, background.py:37: `self.pid = prcs[0].pid`, the id
\* Task.kill passes to os.killpg
TaskPid(ps) == ps[1].pid
\* Piperum._kill, runner.py:80: the id passed to os.killpg
KillTarget(ps) == ps[1].pid

\* The stdout argument of construct_pipeline: runner.py:116, 167, 216
ConstructStdout == IF call.mode = "cap" THEN "PIPE" ELSE std[2]

NextPc(k) ==
    IF k < call.n THEN "construct"
    ELSE IF IsFg THEN "tcsetpgrp" ELSE "prepare_std_exit"

\* One iteration of the loop of construct_pipeline whose Popen succeeds:
\* utils.py:156-188; after the last one the function returns (line 190).
SpawnOk ==
    /\ pc = "construct"
    /\ LET k == Len(prcs) + 1
           env == SessEnv(call.s)
           pgid == IF k = 1 THEN 0 ELSE prcs[1].pid
           sin == StageStdin(k, std[1])
           sout == StageStdout(k, call.n, ConstructStdout)
       IN /\ prcs' = Append(prcs,
                 [state |-> "running", rc |-> 0, pid |-> Pid(k),
                  pgid |-> ProcessGroup(pgid, Pid(k)),
                  env |-> PopenEnv(prcs_env(env), env),
                  stdin |-> sin, stdout |-> sout, stderr |-> std[3],
                  out |-> 0, err |-> 0, inp |-> <<>>])
          /\ rdOpen' = IF sout = "PIPE" THEN rdOpen \cup {k} ELSE rdOpen
          /\ stdinPipe' = IF sin = "PIPE"
                          THEN [stdinPipe EXCEPT !.wrOpen = TRUE] ELSE stdinPipe
          /\ pc' = NextPc(k)
    /\ UNCHANGED bgVars
    /\ UNCHANGED <<envObjs, sess, call, exc, tty, saved, std, openHandles,
                   pipes, loop, killed>>

\* Popen raises for stage k (command not found, permission denied); the
\* exception leaves construct_pipeline and the with body: utils.py:173
SpawnFail ==
    /\ pc = "construct"
    /\ exc' = [kind |-> "spawn", idx |-> Len(prcs) + 1, code |-> 0]
    /\ pc' = "prepare_std_exit"
    /\ UNCHANGED bgVars
    /\ UNCHANGED <<envObjs, sess, call, tty, saved, std, openHandles, prcs,
                   pipes, rdOpen, stdinPipe, loop, killed>>

\* os.tcsetpgrp(tty_fd, prcs[0].pid): runner.py:119, 170
TcsetpgrpOk ==
    /\ pc = "tcsetpgrp"
    /\ tty' = [tty EXCEPT !.fg = prcs[1].pid]
    /\ loop' = [loop EXCEPT !.i = 1]
    /\ pc' = "drain"
    /\ UNCHANGED bgVars
    /\ UNCHANGED <<envObjs, sess, call, exc, saved, std, openHandles, prcs,
                   pipes, rdOpen, stdinPipe, killed>>

TcsetpgrpFail ==
    /\ pc = "tcsetpgrp"
    /\ exc' = [kind |-> "handoff", idx |-> 0, code |-> 0]
    /\ pc' = "prepare_std_exit"
    /\ UNCHANGED bgVars
    /\ UNCHANGED <<envObjs, sess, call, tty, saved, std, openHandles, prcs,
                   pipes, rdOpen, stdinPipe, loop, killed>>

\* --------------------------------------------------------- child processes
Running(k) == k \in DOMAIN prcs /\ prcs[k].state = "running"

\* Someone holds the read end of stage k's stdout pipe: the caller (the
\* Popen object's stdout attribute) or the next stage (its stdin).
HasReader(k) == k \in rdOpen \/ Running(k + 1)

\* Stage k reads one byte of its stdin
StageRead(k) ==
    /\ Running(k)
    /\ IF k = 1
       THEN /\ prcs[k].stdin = "PIPE"
            /\ stdinPipe.buf # <<>>
            /\ prcs' = [prcs EXCEPT ![k].inp = Append(@, Head(stdinPipe.buf))]
            /\ stdinPipe' = [stdinPipe EXCEPT !.buf = Tail(@)]
            /\ pipes' = pipes
       ELSE /\ pipes[k - 1] # <<>>
            /\ prcs' = [prcs EXCEPT ![k].inp = Append(@, Head(pipes[k - 1]))]
            /\ pipes' = [pipes EXCEPT ![k - 1] = Tail(@)]
            /\ stdinPipe' = stdinPipe
    /\ UNCHANGED bgVars
    /\ UNCHANGED <<envObjs, sess, call, pc, exc, tty, saved, std, openHandles,
                   rdOpen, loop, killed>>

\* Stage k writes its next byte to stdout; a write to a pipe nobody reads
\* delivers SIGPIPE, a write to a full pipe blocks.
StageWrite(k) ==
    /\ Running(k)
    /\ prcs[k].out < MaxOut
    /\ IF prcs[k].stdout = "PIPE"
       THEN IF ~HasReader(k)
            THEN /\ prcs' = [prcs EXCEPT ![k].state = "exited", ![k].rc = SIGPIPED]
                 /\ pipes' = pipes
            ELSE /\ Len(pipes[k]) < PipeCap
                 /\ prcs' = [prcs EXCEPT ![k].out = @ + 1]
                 /\ pipes' = [pipes EXCEPT ![k] = Append(@, Tok(k, prcs[k].out + 1))]
       ELSE /\ prcs' = [prcs EXCEPT ![k].out = @ + 1]
            /\ pipes' = pipes
    /\ UNCHANGED bgVars
    /\ UNCHANGED <<envObjs, sess, call, pc, exc, tty, saved, std, openHandles,
                   rdOpen, stdinPipe, loop, killed>>

\* Where the stderr handle Popen was given sends stage k's error output:
\* subprocess.STDOUT stands for the stage's own stdout
ErrSink(k) == IF prcs[k].stderr = "STDOUT" THEN prcs[k].stdout ELSE prcs[k].stderr

\* Stage k writes its next byte to stderr
StageWriteErr(k) ==
    /\ Running(k)
    /\ prcs[k].err < MaxErr
    /\ IF ErrSink(k) = "PIPE"
       THEN IF ~HasReader(k)
            THEN /\ prcs' = [prcs EXCEPT ![k].state = "exited", ![k].rc = SIGPIPED]
                 /\ pipes' = pipes
            ELSE /\ Len(pipes[k]) < PipeCap
                 /\ prcs' = [prcs EXCEPT ![k].err = @ + 1]
                 /\ pipes' = [pipes EXCEPT ![k] = Append(@, ErrTok(k, prcs[k].err + 1))]
       ELSE /\ prcs' = [prcs EXCEPT ![k].err = @ + 1]
            /\ pipes' = pipes
    /\ UNCHANGED bgVars
    /\ UNCHANGED <<envObjs, sess, call, pc, exc, tty, saved, std, openHandles,
                   rdOpen, stdinPipe, loop, killed>>

\* Stage k exits with the given code and becomes a zombie until waited for
StageExit(k, code) ==
    /\ Running(k)
    /\ prcs' = [prcs EXCEPT ![k].state = "exited", ![k].rc = code]
    /\ UNCHANGED bgVars
    /\ UNCHANGED <<envObjs, sess, call, pc, exc, tty, saved, std, openHandles,
                   pipes, rdOpen, stdinPipe, loop, killed>>

\* Everything stage k has written to its stdout so far
Written(k) == [j \in 1..prcs[k].out |-> Tok(k, j)]

\* ------------------------------------------------------------ draining
\* What the loop body does with stage i: runner.py:123-127 (run) and
\* runner.py:176-184 (cap).  op: the Popen call; input: its input argument;
\* capture: its stdout result is assigned to res_out; reset: prc_inp is set
\* to None afterwards.
RunOp(n, i, prc_inp) ==
    IF prc_inp = None
    THEN [op |-> "wait", input |-> None, capture |-> FALSE, reset |-> FALSE]
    ELSE [op |-> "communicate", input |-> prc_inp, capture |-> FALSE, reset |-> TRUE]

\* (mutant) the output of the first stage is captured instead of the last
CapOp_FirstStage(n, i, prc_inp) ==
    IF i = 1
    THEN [op |-> "communicate", input |-> prc_inp, capture |-> TRUE, reset |-> TRUE]
    ELSE [op |-> "wait", input |-> None, capture |-> FALSE, reset |-> FALSE]

CapOp(n, i, prc_inp) ==
    IF n = 1
    THEN [op |-> "communicate", input |-> prc_inp, capture |-> TRUE, reset |-> FALSE]
    ELSE IF prc_inp # None
    THEN [op |-> "communicate", input |-> prc_inp, capture |-> FALSE, reset |-> TRUE]
    ELSE IF i = n
    THEN [op |-> "communicate", input |-> None, capture |-> TRUE, reset |-> FALSE]
    ELSE [op |-> "wait", input |-> None, capture |-> FALSE, reset |-> FALSE]

DrainOp ==
    IF call.mode = "cap" THEN CapOp(call.n, loop.i, loop.prc_inp)
    ELSE RunOp(call.n, loop.i, loop.prc_inp)

\* (mutant) only death by a signal raises
Raises_SignalOnly(retcode) == retcode < 0

\* runner.py:131, 188: `if retcode:`
Raises(retcode) == retcode # 0

\* (mutant) _kill follows the loop instead of sitting in a finally clause
LeaveTry_NoFinally(kind) == IF kind = "none" THEN "_kill" ELSE "prepare_std_exit"

\* Where control goes when the try block is left, normally or by an
\* exception: the finally clause runs _kill.  runner.py:133-134, 190-191
LeaveTry(kind) == "_kill"

\* runner.py:129-132, 186-189 and the loop header: the end of one iteration
\* for stage i whose returncode is rc
EndIteration(l, rc) ==
    /\ IF Raises(rc)
       THEN /\ exc' = [kind |-> "CalledProcessError", idx |-> l.i, code |-> rc]
            /\ pc' = LeaveTry("CalledProcessError")
            /\ loop' = [l EXCEPT !.retcode = rc]
       ELSE /\ exc' = exc
            /\ IF l.i < call.n
               THEN /\ pc' = "drain"
                    /\ loop' = [l EXCEPT !.retcode = rc, !.i = @ + 1]
               ELSE /\ pc' = LeaveTry("none")
                    /\ loop' = [l EXCEPT !.retcode = rc]

\* prc.wait(timeout) returns: the stage has exited and is reaped
WaitReturn ==
    /\ pc = "drain"
    /\ DrainOp.op = "wait"
    /\ prcs[loop.i].state = "exited"
    /\ prcs' = [prcs EXCEPT ![loop.i].state = "reaped"]
    /\ EndIteration(loop, prcs[loop.i].rc)
    /\ UNCHANGED bgVars
    /\ UNCHANGED <<envObjs, sess, call, tty, saved, std, openHandles, pipes,
                   rdOpen, stdinPipe, killed>>

\* Popen.communicate, stdin side: write the next byte of input to the
\* stage's stdin pipe, or close the pipe when the input is exhausted (or
\* absent, or the pipe is broken: BrokenPipeError is ignored there).
CommFeed ==
    /\ pc = "drain"
    /\ DrainOp.op = "communicate"
    /\ prcs[loop.i].stdin = "PIPE"
    /\ stdinPipe.wrOpen
    /\ LET input == IF DrainOp.input = None THEN <<>> ELSE DrainOp.input[1]
       IN IF stdinPipe.fed < Len(input) /\ Running(loop.i)
          THEN /\ Len(stdinPipe.buf) < PipeCap
               /\ stdinPipe' = [stdinPipe EXCEPT
                     !.buf = Append(@, input[stdinPipe.fed + 1]),
                     !.fed = @ + 1]
          ELSE stdinPipe' = [stdinPipe EXCEPT !.wrOpen = FALSE]
    /\ UNCHANGED bgVars
    /\ UNCHANGED <<envObjs, sess, call, pc, exc, tty, saved, std, openHandles,
                   prcs, pipes, rdOpen, loop, killed>>

\* Popen.communicate, stdout side: the Popen object's stdout attribute is
\* the caller's read end of the stage's stdout pipe, and communicate reads
\* it until end of file.
CommRead ==
    /\ pc = "drain"
    /\ DrainOp.op = "communicate"
    /\ loop.i \in rdOpen
    /\ pipes[loop.i] # <<>>
    /\ loop' = [loop EXCEPT !.buf = Append(@, Head(pipes[loop.i]))]
    /\ pipes' = [pipes EXCEPT ![loop.i] = Tail(@)]
    /\ UNCHANGED bgVars
    /\ UNCHANGED <<envObjs, sess, call, pc, exc, tty, saved, std, openHandles,
                   prcs, rdOpen, stdinPipe, killed>>

\* Popen.communicate returns: stdin closed, stdout at end of file and
\* closed, the stage reaped.
CommReturn ==
    /\ pc = "drain"
    /\ DrainOp.op = "communicate"
    /\ ~(prcs[loop.i].stdin = "PIPE" /\ stdinPipe.wrOpen)
    /\ loop.i \in rdOpen => pipes[loop.i] = <<>>
    /\ prcs[loop.i].state = "exited"
    /\ prcs' = [prcs EXCEPT ![loop.i].state = "reaped"]
    /\ rdOpen' = rdOpen \ {loop.i}
    /\ LET d == DrainOp
           out == IF loop.i \in rdOpen THEN Some(loop.buf) ELSE None
           l == [loop EXCEPT !.buf = <<>>,
                             !.res_out = IF d.capture THEN out ELSE @,
                             !.prc_inp = IF d.reset THEN None ELSE @]
       IN EndIteration(l, prcs[loop.i].rc)
    /\ UNCHANGED bgVars
    /\ UNCHANGED <<envObjs, sess, call, tty, saved, std, openHandles, pipes,
                   stdinPipe, killed>>

\* prc.wait / prc.communicate raises TimeoutExpired: the stage is still
\* running when the timeout elapses.
StageTimeout ==
    /\ pc = "drain"
    /\ call.timeout # None
    /\ Running(loop.i)
    /\ exc' = [kind |-> "TimeoutExpired", idx |-> loop.i, code |-> 0]
    /\ pc' = LeaveTry("TimeoutExpired")
    /\ UNCHANGED bgVars
    /\ UNCHANGED <<envObjs, sess, call, tty, saved, std, openHandles, prcs,
                   pipes, rdOpen, stdinPipe, loop, killed>>

\* The processes of the group led by pid that exist (running or zombie)
Group(pgid) ==
    {k \in DOMAIN prcs : prcs[k].pgid = pgid /\ prcs[k].state \in {"running", "exited"}}

\* runner.py:81-82: `except ProcessLookupError: pass` leaves whatever was
\* propagating (or nothing) untouched
AfterKillpg(e, lookupError) == e

\* Piperum._kill: runner.py:79-83.  killpg raises ProcessLookupError, which
\* is swallowed, when the group has no process; SIGKILL ends every running
\* member.  The map over prc.wait() is lazy and never consumed.
Kill ==
    /\ pc = "_kill"
    /\ LET g == Group(KillTarget(prcs))
           waited == LazyMapApplied(DOMAIN prcs)
       IN /\ killed' = IF g = {} THEN "ProcessLookupError" ELSE "sent"
          /\ prcs' = [k \in DOMAIN prcs |->
                IF k \in waited THEN [prcs[k] EXCEPT !.state = "reaped",
                       !.rc = IF prcs[k].state = "running" THEN SIGKILLED ELSE @]
                ELSE IF k \in g /\ prcs[k].state = "running"
                THEN [prcs[k] EXCEPT !.state = "exited", !.rc = SIGKILLED]
                ELSE prcs[k]]
          /\ exc' = AfterKillpg(exc, g = {})
    /\ pc' = "prepare_std_exit"
    /\ UNCHANGED bgVars
    /\ UNCHANGED <<envObjs, sess, call, tty, saved, std, openHandles,
                   pipes, rdOpen, stdinPipe, loop>>

\* run_bg wraps the pipeline in a Task and returns it: runner.py:219
\* (TaskPoller.add itself is modelled by AddInsert, AddCheck and AddStart)
RunBgReturn ==
    /\ pc = "add"
    /\ openHandles' = FrameDropped(openHandles, exc)
    /\ pc' = "done"
    /\ UNCHANGED bgVars
    /\ UNCHANGED <<envObjs, sess, call, exc, tty, saved, std,
                   prcs, pipes, rdOpen, stdinPipe, loop, killed>>

Stages == 1..MaxStages
Modes == {"run", "cap", "run_bg"}
OptTexts == {None} \cup {Some(t) : t \in Texts}

\* The stream directives the entry points are called with: every choice of
\* the input directives, and every choice of the output / error directives
\* with no input or with both input directives.
StreamArgs ==
    {[inptxt |-> a, inpfl |-> b, outfl |-> None, errfl |-> None, err2out |-> FALSE] :
        a \in OptTexts, b \in {None, Some(InPath)}}
    \cup
    {[inptxt |-> a, inpfl |-> IF a = None THEN None ELSE Some(InPath),
      outfl |-> o, errfl |-> e, err2out |-> m] :
        a \in {None, Some(<<"t">>)}, o \in {None, Some(OutPath)},
        e \in {None, Some(ErrPath)}, m \in BOOLEAN}

\* The steps of the calling thread after the entry, and of the children
Steps ==
    \/ WrapTtyEnter
    \/ PrepareStdEnter
    \/ SpawnOk
    \/ SpawnFail
    \/ TcsetpgrpOk
    \/ TcsetpgrpFail
    \/ WaitReturn
    \/ CommRead
    \/ CommReturn
    \/ Kill
    \/ PrepareStdExit
    \/ WrapTtyExit
    \/ RunBgReturn
    \/ \E k \in Stages : StageRead(k)
    \/ \E k \in Stages : StageWrite(k)
    \/ \E k \in Stages, code \in ExitCodes : StageExit(k, code)

\* One call of run, cap or run_bg on the initial session, with any stream
\* directives and timeout
Next ==
    \/ pc = "idle" /\ \E mode \in Modes, n \in 1..MaxStages, a \in StreamArgs,
          timeout \in Timeouts :
          Call(mode, 1, n, a.inptxt, a.inpfl, a.outfl, a.errfl, a.err2out, timeout)
    \/ CommFeed
    \/ StageTimeout
    \/ DropException
    \/ Steps

Spec == Init /\ [][Next]_vars

\* Sessions derived with environment overlays, then one call on any of them
\* with no stream directives and no timeout
NextEnv ==
    \/ pc = "idle" /\ \E self \in DOMAIN sess, env \in Overlays : Derive(self, env)
    \/ pc = "idle" /\ \E mode \in Modes, s \in DOMAIN sess, n \in 1..MaxStages :
          Call(mode, s, n, None, None, None, None, FALSE, None)
    \/ Steps

SpecEnv == Init /\ [][NextEnv]_vars

\* One call with no input directive and any output / error directives,
\* whose stages also write to their stderr
NextErr ==
    \/ pc = "idle" /\ \E mode \in Modes, n \in 1..MaxStages,
             o \in {None, Some(OutPath)}, e \in {None, Some(ErrPath)}, m \in BOOLEAN :
          Call(mode, 1, n, None, None, o, e, m, None)
    \/ \E k \in Stages : StageWriteErr(k)
    \/ DropException
    \/ Steps

SpecErr == Init /\ [][NextErr]_vars

\* Stage k, having written all of its output and error output, exits with
\* status 0: a program that ends by itself once nothing blocks it
StageDone(k) ==
    /\ Running(k)
    /\ prcs[k].out = MaxOut
    /\ prcs[k].err = MaxErr
    /\ StageExit(k, 0)

\* The steps of the calling thread inside run, cap and run_bg
CallerStep ==
    \/ WrapTtyEnter
    \/ PrepareStdEnter
    \/ SpawnOk
    \/ SpawnFail
    \/ TcsetpgrpOk
    \/ TcsetpgrpFail
    \/ WaitReturn
    \/ CommFeed
    \/ CommRead
    \/ CommReturn
    \/ Kill
    \/ PrepareStdExit
    \/ WrapTtyExit
    \/ RunBgReturn

\* The steps stage k takes by itself whenever it is not blocked
StageProgress(k) == StageWrite(k) \/ StageWriteErr(k) \/ StageDone(k)

\* One call with no timeout and no input or file directive; the stages
\* write their output and error output and then exit, or exit earlier
NextLive ==
    \/ pc = "idle" /\ \E mode \in Modes, n \in 1..MaxStages, m \in BOOLEAN :
          Call(mode, 1, n, None, None, None, None, m, None)
    \/ \E k \in Stages : StageWriteErr(k)
    \/ \E k \in Stages : StageDone(k)
    \/ Steps

\* The calling thread and every stage are scheduled whenever they can run
FairLive ==
    /\ WF_vars(CallerStep)
    /\ \A k \in Stages : WF_vars(StageProgress(k))
    /\ \A k \in Stages : WF_vars(StageRead(k))

SpecLive == Init /\ [][NextLive]_vars /\ FairLive

\* ------------------------------------------------------- background tasks
\* State of the foreground side (sessions, the call in progress, its children)
fgVars == <<envObjs, sess, call, pc, exc, tty, saved, std, openHandles, prcs,
            pipes, rdOpen, stdinPipe, loop, killed>>

SIGKILL == 9
TaskIds == 1..MaxTasks
Callers == 1..MaxCallers
ThreadIds == 1..MaxTasks
\* A process of a background pipeline, as its Popen object sees it
BgStage == [state |-> "running", rc |-> 0]
\* Task.__init__: background.py:35-37
Task(n, pid) == [prcs |-> [k \in 1..n |-> BgStage], pid |-> pid]
\* Popen.poll(): the exit status once the process has exited, else None
Poll(prc) == IF prc.state = "running" THEN None ELSE Some(prc.rc)
\* The index `-1` of background.py:46 and :55
PollIndex_First(n) == 1
PollIndex(n) == n
\* Task.returncode: background.py:39-46
returncode(t) == Poll(bgTasks[t].prcs[PollIndex(Len(bgTasks[t].prcs))])
\* Task.is_alive: background.py:48-58
is_alive(t) ==
    LET rc == Poll(bgTasks[t].prcs[PollIndex(Len(bgTasks[t].prcs))])
    IN IF rc = None THEN TRUE ELSE FALSE
\* Task.kill: background.py:66-73.  The signal ends every running process of
\* the group led by the first stage; ProcessLookupError is swallowed.
TaskKill(task, signal) ==
    [task EXCEPT !.prcs = [k \in DOMAIN task.prcs |->
        IF task.prcs[k].state = "running"
        THEN [state |-> "exited", rc |-> -signal] ELSE task.prcs[k]]]
\* threading.Thread.is_alive()
ThreadAlive(th) == threads[th].pc # "dead"

\* Piperum.run_bg seen from the poller: runner.py:210-219.  The pipeline of
\* n stages has been constructed and the caller enters TaskPoller.add.
RunBg(c, n) ==
    /\ callers[c].pc = "idle"
    /\ Len(bgTasks) < MaxTasks
    /\ bgTasks' = Append(bgTasks, Task(n, 100 * (Len(bgTasks) + 1) + 1))
    /\ callers' = [callers EXCEPT ![c] = [pc |-> "add", task |-> Len(bgTasks) + 1]]
    /\ UNCHANGED fgVars
    /\ UNCHANGED <<tasks, poll_th, threads, waiter>>

\* TaskPoller.add: background.py:116 `self.tasks.add(task)`
AddInsert(c) ==
    /\ callers[c].pc = "add"
    /\ tasks' = tasks \cup {callers[c].task}
    /\ callers' = [callers EXCEPT ![c].pc = "check"]
    /\ UNCHANGED fgVars
    /\ UNCHANGED <<bgTasks, poll_th, threads, waiter>>

\* TaskPoller.add: background.py:117, the test
\* `self._poll_th is None or not self._poll_th.is_alive()`; when it is false
\* add returns the task (background.py:120)
AddCheck(c) ==
    /\ callers[c].pc = "check"
    /\ callers' = [callers EXCEPT ![c].pc =
            IF poll_th = 0 \/ ~ThreadAlive(poll_th) THEN "start" ELSE "idle"]
    /\ UNCHANGED fgVars
    /\ UNCHANGED <<bgTasks, tasks, poll_th, threads, waiter>>

\* TaskPoller.add: background.py:118-120, a new thread is created, stored in
\* _poll_th and started, and add returns the task
AddStart(c) ==
    /\ callers[c].pc = "start"
    /\ threads' = Append(threads, [pc |-> "sleep", finished_tasks |-> {},
                                   todo |-> {}, used |-> 0, error |-> FALSE])
    /\ poll_th' = Len(threads) + 1
    /\ callers' = [callers EXCEPT ![c].pc = "idle"]
    /\ UNCHANGED fgVars
    /\ UNCHANGED <<bgTasks, tasks, waiter>>

\* TaskPoller._poll_func: background.py:99-103.  finished_tasks is reset, the
\* sleep ends, and the loop is left when the set is empty; otherwise the
\* iteration over self.tasks begins (the iterator records the set's size).
PollWake(th) ==
    /\ th \in DOMAIN threads
    /\ threads[th].pc = "sleep"
    /\ threads' = [threads EXCEPT ![th] =
            IF tasks = {}
            THEN [@ EXCEPT !.pc = "exiting", !.finished_tasks = {}]
            ELSE [@ EXCEPT !.pc = "iter", !.finished_tasks = {},
                          !.todo = tasks, !.used = Cardinality(tasks)]]
    /\ UNCHANGED fgVars
    /\ UNCHANGED <<bgTasks, tasks, poll_th, callers, waiter>>

\* TaskPoller._poll_func: background.py:104-107, one step of
\* `for task in self.tasks`.  The set iterator raises RuntimeError ("Set
\* changed size during iteration") when the size differs from the one it
\* recorded; nothing catches it, so the thread ends.
PollNext(th) ==
    /\ th \in DOMAIN threads
    /\ threads[th].pc = "iter"
    /\ IF Cardinality(tasks) # threads[th].used
       THEN threads' = [threads EXCEPT ![th].pc = "dead", ![th].error = TRUE]
       ELSE IF threads[th].todo \cap tasks = {}
       THEN threads' = [threads EXCEPT ![th].pc = "update"]
       ELSE \E t \in threads[th].todo \cap tasks :
              threads' = [threads EXCEPT
                 ![th].todo = @ \ {t},
                 ![th].finished_tasks =
                     IF returncode(t) # None THEN @ \cup {t} ELSE @]
    /\ UNCHANGED fgVars
    /\ UNCHANGED <<bgTasks, tasks, poll_th, callers, waiter>>

\* TaskPoller._poll_func: background.py:108
\* `self.tasks.difference_update(finished_tasks)`, then back to the sleep
PollUpdate(th) ==
    /\ th \in DOMAIN threads
    /\ threads[th].pc = "update"
    /\ tasks' = tasks \ threads[th].finished_tasks
    /\ threads' = [threads EXCEPT ![th].pc = "sleep"]
    /\ UNCHANGED fgVars
    /\ UNCHANGED <<bgTasks, poll_th, callers, waiter>>

\* TaskPoller._poll_func: background.py:102-103, after `break` the thread
\* function returns and the thread stops being alive
PollExit(th) ==
    /\ th \in DOMAIN threads
    /\ threads[th].pc = "exiting"
    /\ threads' = [threads EXCEPT ![th].pc = "dead"]
    /\ UNCHANGED fgVars
    /\ UNCHANGED <<bgTasks, tasks, poll_th, callers, waiter>>

\* A running stage of a background pipeline exits
BgStageExit(t, k, code) ==
    /\ t \in DOMAIN bgTasks
    /\ k \in DOMAIN bgTasks[t].prcs
    /\ bgTasks[t].prcs[k].state = "running"
    /\ bgTasks' = [bgTasks EXCEPT ![t].prcs[k] = [state |-> "exited", rc |-> code]]
    /\ UNCHANGED fgVars
    /\ UNCHANGED <<tasks, poll_th, threads, callers, waiter>>

\* Task.wait is called: background.py:75
TaskWaitCall(t, timeout) ==
    /\ waiter.state = "none"
    /\ t \in DOMAIN bgTasks
    /\ waiter' = [state |-> "waiting", task |-> t, value |-> 0,
                  timeout |-> timeout, i |-> 1]
    /\ UNCHANGED fgVars
    /\ UNCHANGED <<bgTasks, tasks, poll_th, threads, callers>>

\* Task.wait: background.py:84-86, `return prc.wait(timeout)` inside the
\* loop over the stages: the wait on the stage the loop is at returns and
\* so does Task.wait
TaskWaitReturn ==
    /\ waiter.state = "waiting"
    /\ bgTasks[waiter.task].prcs[waiter.i].state # "running"
    /\ waiter' = [waiter EXCEPT !.state = "returned",
                                !.value = bgTasks[waiter.task].prcs[waiter.i].rc]
    /\ UNCHANGED fgVars
    /\ UNCHANGED <<bgTasks, tasks, poll_th, threads, callers>>

\* Task.wait: background.py:87-89, the wait on the stage exceeds the
\* timeout: the group is killed with SIGKILL and TimeoutExpired is re-raised
TaskWaitTimeout ==
    /\ waiter.state = "waiting"
    /\ waiter.timeout # None
    /\ bgTasks[waiter.task].prcs[waiter.i].state = "running"
    /\ bgTasks' = [bgTasks EXCEPT ![waiter.task] = TaskKill(@, SIGKILL)]
    /\ waiter' = [waiter EXCEPT !.state = "raised", !.value = "TimeoutExpired"]
    /\ UNCHANGED fgVars
    /\ UNCHANGED <<tasks, poll_th, threads, callers>>

\* The steps of a polling thread
PollStep(th) == PollWake(th) \/ PollNext(th) \/ PollUpdate(th) \/ PollExit(th)
\* The steps of a caller inside TaskPoller.add
AddStep(c) == AddInsert(c) \/ AddCheck(c) \/ AddStart(c)

\* Caller threads start single-command background pipelines on one session,
\* whose poller sweeps them as they exit
NextBg ==
    \/ \E c \in Callers : RunBg(c, 1)
    \/ \E c \in Callers : AddInsert(c)
    \/ \E c \in Callers : AddCheck(c)
    \/ \E c \in Callers : AddStart(c)
    \/ \E th \in ThreadIds : PollWake(th)
    \/ \E th \in ThreadIds : PollNext(th)
    \/ \E th \in ThreadIds : PollUpdate(th)
    \/ \E th \in ThreadIds : PollExit(th)
    \/ \E t \in TaskIds : BgStageExit(t, 1, 0)

\* Every thread that can take a step eventually takes one
FairBg ==
    /\ \A th \in ThreadIds : WF_vars(PollStep(th))
    /\ \A c \in Callers : WF_vars(AddStep(c))

SpecBg == Init /\ [][NextBg]_vars /\ FairBg

\* One caller thread starts one background pipeline of any length, its stages
\* exit, and Task.wait is called once on it.  The polling thread only reads
\* the task's processes; its steps are left to SpecBg.
NextTask ==
    \/ bgTasks = <<>> /\ \E n \in 1..MaxStages : RunBg(1, n)
    \/ AddInsert(1)
    \/ AddCheck(1)
    \/ AddStart(1)
    \/ \E t \in TaskIds, k \in Stages, code \in ExitCodes : BgStageExit(t, k, code)
    \/ \E t \in TaskIds, timeout \in Timeouts : TaskWaitCall(t, timeout)
    \/ TaskWaitReturn
    \/ TaskWaitTimeout

SpecTask == Init /\ [][NextTask]_vars

\* ================================================================ claims
DrainKinds == {"none", "CalledProcessError", "TimeoutExpired"}
\* The call has ended (returned or raised) after having entered the loop
DrainedAndDone == IsFg /\ pc = "done" /\ exc.kind \in DrainKinds
\* The draining phase has been left and _kill is over
LeftDraining ==
    IsFg /\ exc.kind \in DrainKinds /\ pc \in {"prepare_std_exit", "wrap_tty_exit", "done"}

\* C1: pipe fidelity.  For every stage k < n whose successor exists, the
\* bytes stage k+1 has consumed followed by the bytes still in the pipe are
\* exactly the bytes stage k wrote: no byte of an inter-stage pipe is
\* consumed elsewhere.
C1_PipeFidelity ==
    \A k \in DOMAIN prcs :
        (k + 1) \in DOMAIN prcs => prcs[k + 1].inp \o pipes[k] = Written(k)

\* C2: a stage that exited non-zero by itself (not by the runner's SIGKILL)
ExitedNonZero(k) ==
    /\ prcs[k].state \in {"exited", "reaped"}
    /\ prcs[k].rc \notin {0, SIGKILLED}
FirstFailed ==
    CHOOSE k \in DOMAIN prcs :
        ExitedNonZero(k) /\ \A j \in DOMAIN prcs : j < k => ~ExitedNonZero(j)
RaisedFirstFailure ==
    exc = [kind |-> "CalledProcessError", idx |-> FirstFailed,
           code |-> prcs[FirstFailed].rc]

\* C2 (as claimed): whenever run or cap has drained a pipeline of which some
\* stage exited non-zero, the call raised CalledProcessError with the exit
\* code and index (command) of the lowest-index such stage.
C2_AsClaimed ==
    (DrainedAndDone /\ \E k \in DOMAIN prcs : ExitedNonZero(k)) => RaisedFirstFailure

\* C2 (amended): the same, provided no stage wait timed out; and exit codes
\* are consulted left to right: a stage is reaped by the loop only after
\* every earlier stage was reaped with exit code 0.
C2_FirstFailureRaised ==
    /\ (DrainedAndDone /\ exc.kind # "TimeoutExpired"
            /\ \E k \in DOMAIN prcs : ExitedNonZero(k)) => RaisedFirstFailure
    /\ IsFg => \A k \in DOMAIN prcs : prcs[k].state = "reaped" =>
                  \A j \in 1..(k - 1) : prcs[j].state = "reaped" /\ prcs[j].rc = 0

C2_Witness ==
    /\ DrainedAndDone
    /\ call.n >= 2
    /\ exc.kind = "CalledProcessError" /\ exc.idx = 2 /\ exc.code = 1
    /\ prcs[1].state = "reaped" /\ prcs[1].rc = 0

\* C3: once the draining phase of run or cap has been left (completed,
\* failed or timed out), killpg(SIGKILL) has been called on the pipeline's
\* group, so that no stage is running any more, and a ProcessLookupError
\* from it did not replace the outcome.
C3_KilledOnLeavingDrain ==
    LeftDraining =>
        /\ killed \in {"sent", "ProcessLookupError"}
        /\ \A k \in DOMAIN prcs : ~Running(k)
        /\ killed = "ProcessLookupError" => exc.kind \in DrainKinds

C3_Witness ==
    /\ DrainedAndDone
    /\ exc.kind = "TimeoutExpired" /\ exc.idx = 1
    /\ killed = "sent"
    /\ call.n >= 2 /\ prcs[2].rc = SIGKILLED

\* C4 (as claimed): when run or cap has ended after the draining phase,
\* every stage has exited and has been reaped.
C4_AllReaped ==
    DrainedAndDone => \A k \in DOMAIN prcs : prcs[k].state = "reaped"

\* C5 (as claimed): when run or cap has ended with the spawn error of a
\* stage k >= 2, none of the stages spawned before it is still running.
C5_EarlierStagesTornDown ==
    (IsFg /\ pc = "done" /\ exc.kind = "spawn") => \A k \in DOMAIN prcs : ~Running(k)

\* C6: after run or cap has ended, in whichever way, the terminal's
\* foreground process group and the SIGTTOU disposition are those in force
\* before the call, and the terminal descriptor is closed.
C6_TerminalRestored ==
    (IsFg /\ pc = "done") =>
        tty = [fg |-> ShellPgrp, sigttou |-> "SIG_DFL", fdOpen |-> FALSE]

C6_Witness ==
    /\ DrainedAndDone
    /\ exc.kind = "CalledProcessError"
    /\ saved.orig_tcpgrp = ShellPgrp
    /\ tty.fg = ShellPgrp /\ tty.sigttou = "SIG_DFL" /\ ~tty.fdOpen

Conflicting ==
    \/ call.inptxt # None /\ call.inpfl # None
    \/ call.errfl # None /\ call.err2out
C8_ConflictBeforeSpawn ==
    (call.mode # "none" /\ Conflicting) =>
        /\ prcs = <<>>
        /\ pc \in {"wrap_tty", "prepare_std", "wrap_tty_exit", "done"}
        /\ pc = "done" => exc.kind = "config"

C8_Witness ==
    /\ pc = "done" /\ exc.kind = "config" /\ prcs = <<>>
    /\ call.errfl # None /\ call.err2out
    /\ call.mode = "run_bg"

\* C9 (as claimed): no step changes the environment of an existing session;
\* in particular deriving a session leaves the original's environment as it
\* was.
C9_DeriveLeavesOriginalEnv ==
    [][\A s \in DOMAIN sess : SessEnv(s)' = SessEnv(s)]_vars

\* C10 (as claimed): every spawned stage runs with the overlay merged over
\* the inherited environment: the overlay's value where it defines the
\* variable, the inherited one (if any) otherwise.
MergedValue(key, overlay) ==
    IF key \in DOMAIN overlay THEN Some(overlay[key])
    ELSE IF key \in DOMAIN os_environ THEN Some(os_environ[key])
    ELSE None
EnvValue(env, key) == IF key \in DOMAIN env THEN Some(env[key]) ELSE None
C10_ChildEnvMerged ==
    \A k \in DOMAIN prcs : \A key \in EnvKeys :
        EnvValue(prcs[k].env, key) = MergedValue(key, SessEnv(call.s))

\* The last stage of background task t
TailStage(t) == bgTasks[t].prcs[Len(bgTasks[t].prcs)]
\* Every stage of background task t has exited
AllStagesExited(t) == \A k \in DOMAIN bgTasks[t].prcs : bgTasks[t].prcs[k].state # "running"

\* C11: Task.wait returns normally only once every stage of the task's
\* pipeline has exited; when it raises, it raises TimeoutExpired after the
\* whole group was killed.
C11_WaitCoversAllStages ==
    /\ waiter.state = "returned" => AllStagesExited(waiter.task)
    /\ waiter.state = "raised" =>
           AllStagesExited(waiter.task) /\ waiter.value = "TimeoutExpired"

\* C12: at every moment a task is alive exactly when its returncode is
\* absent, a present returncode is the exit code of the last stage, which has
\* exited, and a task that is not alive stays not alive with the same
\* returncode.
C12_AliveOnceReturncodeStable ==
    /\ [](\A t \in DOMAIN bgTasks :
            /\ is_alive(t) <=> returncode(t) = None
            /\ returncode(t) # None =>
                  TailStage(t).state # "running" /\ returncode(t) = Some(TailStage(t).rc))
    /\ [][\A t \in DOMAIN bgTasks :
            ~is_alive(t) => ~is_alive(t)' /\ returncode(t)' = returncode(t)]_vars
\* A two-stage task is not alive with returncode 1 while its first stage runs
C12_Witness ==
    \E t \in DOMAIN bgTasks :
        /\ Len(bgTasks[t].prcs) = 2
        /\ bgTasks[t].prcs[1].state = "running"
        /\ ~is_alive(t)
        /\ returncode(t) = Some(1)

\* The polling threads that will still sweep the set: alive and not past
\* the decision to leave the loop
Sweepers == {th \in DOMAIN threads : threads[th].pc \in {"sleep", "iter", "update"}}
\* No caller is inside TaskPoller.add
NoAddInProgress == \A c \in Callers : callers[c].pc = "idle"

\* C13: under fair scheduling of the threads, a task in the poller's set
\* whose tail stage has exited is eventually removed from the set.
C13_FinishedEventuallyRemoved ==
    \A t \in TaskIds : (t \in tasks /\ returncode(t) # None) ~> (t \notin tasks)

\* C14: once every add has returned, a non-empty set of outstanding tasks
\* always has a polling loop that will still sweep it.
C14_OutstandingHasSweeper ==
    (NoAddInProgress /\ tasks # {}) => Sweepers # {}

\* C15: while a sweep is iterating over the outstanding set no add inserts
\* into it.
C15_NoInsertDuringSweep ==
    [][(\E th \in DOMAIN threads : threads[th].pc = "iter") => tasks' \subseteq tasks]_vars

\* C16: at most one polling thread of the poller is alive at any time.
C16_AtMostOnePollThread ==
    Cardinality({th \in DOMAIN threads : ThreadAlive(th)}) <= 1

\* C17: when run or cap, having drained, releases the terminal guard, the
\* pipeline's group has been sent the kill and the stream preparer's
\* handles have been released.
C17_TeardownOrder ==
    [][(pc = "wrap_tty_exit" /\ pc' = "done" /\ exc.kind \in DrainKinds) =>
          (killed # "no" /\ openHandles = {})]_vars

\* C18: once the scope of the stream triple has ended (on a normal exit, on
\* an error inside the scope, or on a failure of the preparation) no handle
\* the stream preparer opened is still open.
C18_HandlesClosedAfterScope ==
    pc \in {"wrap_tty_exit", "add", "done"} => openHandles = {}

\* C19: when run or cap was given input text (the empty text included) and
\* has returned, the runner has closed stage 1's stdin pipe, having written
\* to it nothing but that text; with an input file nothing was fed.
C19_InputTextFedAndClosed ==
    (IsFg /\ pc = "done" /\ exc.kind = "none") =>
        /\ call.inptxt # None =>
              ~stdinPipe.wrOpen /\ stdinPipe.fed <= Len(call.inptxt[1])
        /\ call.inptxt = None => stdinPipe.fed = 0

\* C20: nothing a stage writes to its stderr is delivered to the stdin of
\* the next stage, whatever the error directives are.
C20_StderrNotChained ==
    \A k \in DOMAIN prcs : k > 1 =>
        \A i \in DOMAIN prcs[k].inp : ~IsErrTok(prcs[k].inp[i])

\* construct_pipeline has returned the list of all the stages' processes
Constructed == call.mode # "none" /\ call.n > 0 /\ Len(prcs) = call.n

\* C21: once construct_pipeline has returned, the caller holds the read end
\* of no inter-stage pipe, so the pipe between stage k and stage k+1 has no
\* reader left as soon as stage k+1 is no longer running.
C21_NoInterStageEndHeld ==
    Constructed =>
        \A k \in 1..(call.n - 1) :
            /\ k \notin rdOpen
            /\ ~Running(k + 1) => ~HasReader(k)

\* C22: the processes are spawned one at a time in the order of the stages,
\* every stage belongs to the process group whose id is the first stage's
\* pid, and that id is both the one a Task kills and the one _kill kills.
C22_OneGroupLedByFirstStage ==
    /\ [](\A k \in DOMAIN prcs :
            /\ prcs[k].pid = Pid(k)
            /\ prcs[k].pgid = prcs[1].pid
            /\ TaskPid(prcs) = prcs[k].pgid
            /\ KillTarget(prcs) = prcs[k].pgid)
    /\ [][Len(prcs') > Len(prcs) =>
            /\ Len(prcs') = Len(prcs) + 1
            /\ SubSeq(prcs', 1, Len(prcs)) = prcs]_vars
\* A pipeline of two stages whose group was sent the kill by _kill while
\* both stages were in it
C22_Witness ==
    /\ IsFg
    /\ Len(prcs) = 2
    /\ prcs[2].pgid = prcs[1].pid
    /\ killed = "sent"
    /\ \A k \in DOMAIN prcs : prcs[k].rc = SIGKILLED

\* C23: a call of run or cap with no timeout, whose stages are scheduled
\* fairly and exit by themselves once nothing blocks them, eventually
\* returns or raises.
C23_CallEventuallyEnds ==
    (IsFg /\ call.timeout = None) ~> (pc = "done")
====
